---- MODULE Spec2Model ----
(***************************************************************************)
(* The ledger store of the Spending Tracker (class DB over the SQLite      *)
(* table "entries") and the form handlers of SpendingApp that call it.     *)
(*                                                                         *)
(* Text values are TLA+ strings, SQL NULL / Python None is the token NULL. *)
(* A REAL is a pair <<kind, value>> so that the non-finite values a        *)
(* Python float can hold (inf, -inf, nan) are values of the model; finite  *)
(* amounts are whole numbers, on which double arithmetic is exact.         *)
(***************************************************************************)
EXTENDS Integers, Sequences, FiniteSets, TLC

VARIABLES
    entries,          \* the rows of table "entries"
    sqlite_sequence,  \* AUTOINCREMENT bookkeeping: largest rowid ever assigned
    last,             \* the last DB call: [op, raised, ret]
    vocabulary,       \* the values the callers of this run pass to the store
    add_log,          \* history: the ids returned by add, in call order
    latest,           \* history: id -> fields of its last completed add/update
    table,            \* SpendingApp.table: the rows shown, in display order
    selected,         \* the id in the selected table row, NoSelection if none
    amount_edit,      \* SpendingApp.amount_edit: the text of the amount box
    handler,          \* the last form handler run
    dialog,           \* the message box the last handler opened, if any
    columns           \* the column names of table "entries", NoTable if none

vars == <<entries, sqlite_sequence, last, vocabulary, add_log, latest,
          table, selected, amount_edit, handler, dialog, columns>>

dbVars == <<entries, sqlite_sequence, last>>
histVars == <<add_log, latest>>
uiVars == <<table, selected, amount_edit, handler, dialog>>

\* Largest id the model lets AUTOINCREMENT assign.
MaxId == 2

-----------------------------------------------------------------------------
(* Values *)

NULL == "NULL"

Fin(n) == <<"fin", n>>
PosInf == <<"inf", 1>>
NegInf == <<"inf", -1>>
NaN == <<"nan", 0>>
NullReal == <<"null", 0>>
ValueError == <<"ValueError", 0>>

IsFinite(a) == a[1] = "fin"

\* IEEE 754 addition on the values above.
FAdd(a, b) ==
    IF a = NaN \/ b = NaN THEN NaN
    ELSE IF a[1] = "inf" /\ b[1] = "inf" THEN (IF a = b THEN a ELSE NaN)
    ELSE IF a[1] = "inf" THEN a
    ELSE IF b[1] = "inf" THEN b
    ELSE Fin(a[2] + b[2])

\* Python's a >= 0 and a < 0 on a float (both False on nan).
FGe0(a) == a # NaN /\ a[2] >= 0
FLt0(a) == a # NaN /\ a[2] < 0

\* Python's a == b on floats: nan equals nothing, itself included.
FEq(a, b) == a # NaN /\ b # NaN /\ a = b

\* The text values of the model in SQLite's BINARY collation (memcmp) order.
Collation ==
    <<"", "00:00", "08:00", "2024-01-01", "2024-01-02",
      "All", "Food", "Lunch", "Rent">>

TextRank(s) == CHOOSE i \in 1..Len(Collation) : Collation[i] = s

\* The texts SQLite's date() accepts; each is already in YYYY-MM-DD form.
ValidDates == {"2024-01-01", "2024-01-02"}

\* SQLite date(x): the normalised date, NULL when x is no date.
SqlDate(x) == IF x \in ValidDates THEN x ELSE NULL

\* SQLite ifnull(x, y).
IfNull(x, y) == IF x = NULL THEN y ELSE x

\* a >= b and a <= b in a WHERE clause: NULL (not true) when either is NULL.
SqlGe(a, b) == a # NULL /\ b # NULL /\ TextRank(a) >= TextRank(b)
SqlLe(a, b) == a # NULL /\ b # NULL /\ TextRank(a) <= TextRank(b)

\* Position of a value in ORDER BY: NULL sorts below every text.
SortRank(x) == IF x = NULL THEN 0 ELSE TextRank(x)

\* Python truthiness of an optional string argument.
Truthy(x) == x # NULL /\ x # ""

\* sqlite3 binds a float nan as NULL.
BindReal(a) == IF a = NaN THEN NullReal ELSE a

Ids(E) == {r.id : r \in E}

Max(S) == CHOOSE x \in S : \A y \in S : y <= x

-----------------------------------------------------------------------------
(* The table and the statements of class DB *)

Row(id, dt, tm, category, description, amount) ==
    [id |-> id, dt |-> dt, tm |-> tm, category |-> category,
     description |-> description, amount |-> amount]

Fields(dt, tm, category, description, amount) ==
    [dt |-> dt, tm |-> tm, category |-> category,
     description |-> description, amount |-> amount]

\* SCHEMA_SQL: the columns of CREATE TABLE entries.
SchemaColumns == {"id", "dt", "tm", "category", "description", "amount"}

\* A database file in which table "entries" does not exist.
NoTable == {}

\* SCHEMA_SQL: dt, category and amount are NOT NULL; tm and description are not.
NotNullOk(dt, category, amount) ==
    dt # NULL /\ category # NULL /\ amount # NullReal

\* A call that returned ret (0 for None) and a call that raised.
Returned(op, ret) == [op |-> op, raised |-> FALSE, ret |-> ret]

Raised(op) == [op |-> op, raised |-> TRUE, ret |-> 0]

\* DbAdd on a table whose id column is INTEGER PRIMARY KEY without
\* AUTOINCREMENT: the new rowid is one more than the largest rowid present.
DbAdd_NoAutoincrement(dt, tm, category, description, amount) ==
    LET amt == BindReal(amount)
        rowid == Max(Ids(entries) \cup {0}) + 1
    IN  /\ rowid <= MaxId
        /\ IF NotNullOk(dt, category, amt)
           THEN /\ entries' = entries \cup
                        {Row(rowid, dt, tm, category, description, amt)}
                /\ sqlite_sequence' = rowid
                /\ last' = Returned("add", rowid)
           ELSE /\ UNCHANGED <<entries, sqlite_sequence>>
                /\ last' = Raised("add")

\* DB.add: INSERT, commit, return cur.lastrowid. AUTOINCREMENT takes the new
\* rowid one above the largest rowid the table has ever held. A row that
\* breaks NOT NULL raises sqlite3.IntegrityError and the statement is undone.
DbAdd(dt, tm, category, description, amount) ==
    LET amt == BindReal(amount)
        rowid == Max(Ids(entries) \cup {sqlite_sequence}) + 1
    IN  /\ rowid <= MaxId
        /\ IF NotNullOk(dt, category, amt)
           THEN /\ entries' = entries \cup
                        {Row(rowid, dt, tm, category, description, amt)}
                /\ sqlite_sequence' = rowid
                /\ last' = Returned("add", rowid)
           ELSE /\ UNCHANGED <<entries, sqlite_sequence>>
                /\ last' = Raised("add")

\* DbUpdate as INSERT OR REPLACE: an id that matches no row gets a new row.
DbUpdate_Upsert(entry_id, dt, tm, category, description, amount) ==
    LET amt == BindReal(amount)
    IN  IF ~NotNullOk(dt, category, amt)
        THEN /\ UNCHANGED <<entries, sqlite_sequence>>
             /\ last' = Raised("update")
        ELSE /\ entries' = {r \in entries : r.id # entry_id} \cup
                     {Row(entry_id, dt, tm, category, description, amt)}
             /\ UNCHANGED sqlite_sequence
             /\ last' = Returned("update", 0)

\* DbUpdate that leaves the stored description as it was.
DbUpdate_KeepsDescription(entry_id, dt, tm, category, description, amount) ==
    LET amt == BindReal(amount)
        matched == {r \in entries : r.id = entry_id}
    IN  IF matched # {} /\ ~NotNullOk(dt, category, amt)
        THEN /\ UNCHANGED <<entries, sqlite_sequence>>
             /\ last' = Raised("update")
        ELSE /\ entries' = (entries \ matched) \cup
                     {Row(r.id, dt, tm, category, r.description, amt) :
                          r \in matched}
             /\ UNCHANGED sqlite_sequence
             /\ last' = Returned("update", 0)

\* DB.update: UPDATE ... WHERE id=?, commit. The constraint is checked on the
\* rows the statement changes, so an id that matches no row changes nothing
\* and raises nothing.
DbUpdate(entry_id, dt, tm, category, description, amount) ==
    LET amt == BindReal(amount)
        matched == {r \in entries : r.id = entry_id}
    IN  IF matched # {} /\ ~NotNullOk(dt, category, amt)
        THEN /\ UNCHANGED <<entries, sqlite_sequence>>
             /\ last' = Raised("update")
        ELSE /\ entries' = (entries \ matched) \cup
                     {Row(r.id, dt, tm, category, description, amt) :
                          r \in matched}
             /\ UNCHANGED sqlite_sequence
             /\ last' = Returned("update", 0)

\* DB.delete: DELETE ... WHERE id=?, commit.
DbDelete(entry_id) ==
    /\ entries' = {r \in entries : r.id # entry_id}
    /\ UNCHANGED sqlite_sequence
    /\ last' = Returned("delete", 0)

-----------------------------------------------------------------------------
(* The queries of class DB *)

\* Where with the date bounds exclusive.
Where_ExclusiveBounds(E, dt_from, dt_to, category) ==
    {r \in E :
        /\ Truthy(dt_from) =>
               (SqlGe(SqlDate(r.dt), SqlDate(dt_from)) /\ SqlDate(r.dt) # SqlDate(dt_from))
        /\ Truthy(dt_to) =>
               (SqlLe(SqlDate(r.dt), SqlDate(dt_to)) /\ SqlDate(r.dt) # SqlDate(dt_to))
        /\ (Truthy(category) /\ category # "All") => r.category = category}

\* DB.fetch, the WHERE clause it builds: each condition is appended only for
\* a truthy argument, the category one only when it is not "All".
Where(E, dt_from, dt_to, category) ==
    {r \in E :
        /\ Truthy(dt_from) => SqlGe(SqlDate(r.dt), SqlDate(dt_from))
        /\ Truthy(dt_to) => SqlLe(SqlDate(r.dt), SqlDate(dt_to))
        /\ (Truthy(category) /\ category # "All") => r.category = category}

\* Before with the NULL times left to sort as NULL, below every text.
Before_NullTimeLast(r, q) ==
    LET rd == SortRank(SqlDate(r.dt))
        qd == SortRank(SqlDate(q.dt))
        rt == SortRank(r.tm)
        qt == SortRank(q.tm)
    IN  \/ rd > qd
        \/ rd = qd /\ rt > qt
        \/ rd = qd /\ rt = qt /\ r.id > q.id

\* DB.fetch, its ORDER BY date(dt) DESC, ifnull(tm,'00:00') DESC, id DESC:
\* row r is placed before row q.
Before(r, q) ==
    LET rd == SortRank(SqlDate(r.dt))
        qd == SortRank(SqlDate(q.dt))
        rt == SortRank(IfNull(r.tm, "00:00"))
        qt == SortRank(IfNull(q.tm, "00:00"))
    IN  \/ rd > qd
        \/ rd = qd /\ rt > qt
        \/ rd = qd /\ rt = qt /\ r.id > q.id

RECURSIVE OrderBy(_)
OrderBy(S) ==
    IF S = {} THEN <<>>
    ELSE LET first == CHOOSE r \in S : \A q \in S \ {r} : Before(r, q)
         IN  <<first>> \o OrderBy(S \ {first})

\* DB.fetch: the rows, as cur.fetchall() lists them.
Fetch(E, dt_from, dt_to, category) ==
    OrderBy(Where(E, dt_from, dt_to, category))

\* The last column of each fetched row.
Amounts(rows) == [i \in 1..Len(rows) |-> rows[i].amount]

\* Python sum(): left to right, starting from 0.
RECURSIVE PySum(_)
PySum(xs) ==
    IF xs = <<>> THEN Fin(0)
    ELSE FAdd(PySum(SubSeq(xs, 1, Len(xs) - 1)), xs[Len(xs)])

\* DB.totals: (income, expense, income + expense) over the rows of fetch.
Totals(E, dt_from, dt_to, category) ==
    LET rows == Fetch(E, dt_from, dt_to, category)
        income == PySum(SelectSeq(Amounts(rows), FGe0))
        expense == PySum(SelectSeq(Amounts(rows), FLt0))
    IN  [income |-> income, expense |-> expense,
         balance |-> FAdd(income, expense)]

\* SQLite SUM(amount) over a group of rows: a sum that is nan comes back NULL.
RECURSIVE SumAmounts(_)
SumAmounts(S) ==
    IF S = {} THEN Fin(0)
    ELSE LET r == CHOOSE x \in S : TRUE
         IN  FAdd(SumAmounts(S \ {r}), r.amount)

SqlSum(S) == LET s == SumAmounts(S) IN IF s = NaN THEN NullReal ELSE s

RECURSIVE OrderAscending(_)
OrderAscending(C) ==
    IF C = {} THEN <<>>
    ELSE LET first == CHOOSE c \in C : \A d \in C : TextRank(c) <= TextRank(d)
         IN  <<first>> \o OrderAscending(C \ {first})

\* DB.by_category: SELECT category, SUM(amount) ... GROUP BY category ORDER BY
\* category ASC. The category argument is accepted and never read.
ByCategory(E, dt_from, dt_to, category) ==
    LET rows == Where(E, dt_from, dt_to, NULL)
        groups == OrderAscending({r.category : r \in rows})
    IN  [i \in 1..Len(groups) |->
            <<groups[i], SqlSum({r \in rows : r.category = groups[i]})>>]

-----------------------------------------------------------------------------
(* Callers of the store: the values they pass and what they have seen *)

\* Dates and times, the missing ones included.
DateTimeVocabulary ==
    [dt |-> {NULL, "2024-01-01", "2024-01-02"},
     tm |-> {NULL, "00:00", "08:00"},
     category |-> {"Food"},
     description |-> {"Lunch"},
     amount |-> {Fin(3)}]

\* Categories, descriptions and dates, the empty and the missing ones included.
CategoryVocabulary ==
    [dt |-> {"", "2024-01-01"},
     tm |-> {NULL},
     category |-> {NULL, "", "All", "Food"},
     description |-> {NULL, "Lunch"},
     amount |-> {Fin(3)}]

\* Amounts of both signs, the non-finite floats included.
AmountVocabulary ==
    [dt |-> {"2024-01-02"},
     tm |-> {"08:00"},
     category |-> {"Food", "Rent"},
     description |-> {""},
     amount |-> {Fin(-5), Fin(3), PosInf, NegInf, NaN}]

Vocabularies == {DateTimeVocabulary, CategoryVocabulary, AmountVocabulary}

\* The ids a caller passes: every id add can have returned, and one it cannot.
EntryIds == 1..(MaxId + 1)

\* The filter arguments of fetch, totals and by_category.
DateFilters == {NULL, ""} \cup ValidDates
CategoryFilters == {NULL, "", "All", "Food", "Rent"}

NoSelection == 0

\* A caller runs db.add(...) and keeps the id it returns.
Add ==
    \E dt \in vocabulary.dt, tm \in vocabulary.tm, category \in vocabulary.category,
       description \in vocabulary.description, amount \in vocabulary.amount :
        /\ DbAdd(dt, tm, category, description, amount)
        /\ add_log' = IF last'.raised THEN add_log ELSE Append(add_log, last'.ret)
        /\ latest' = IF last'.raised THEN latest
                     ELSE [i \in DOMAIN latest \cup {last'.ret} |->
                              IF i = last'.ret
                              THEN Fields(dt, tm, category, description, amount)
                              ELSE latest[i]]
        /\ UNCHANGED <<vocabulary, columns, uiVars>>

\* A caller runs db.update(entry_id, ...).
Update ==
    \E entry_id \in EntryIds,
       dt \in vocabulary.dt, tm \in vocabulary.tm, category \in vocabulary.category,
       description \in vocabulary.description, amount \in vocabulary.amount :
        /\ DbUpdate(entry_id, dt, tm, category, description, amount)
        /\ latest' = IF ~last'.raised /\ entry_id \in DOMAIN latest
                     THEN [latest EXCEPT
                              ![entry_id] = Fields(dt, tm, category, description, amount)]
                     ELSE latest
        /\ UNCHANGED <<add_log, vocabulary, columns, uiVars>>

\* A caller runs db.delete(entry_id).
Delete ==
    \E entry_id \in EntryIds :
        /\ DbDelete(entry_id)
        /\ latest' = IF last'.raised THEN latest
                     ELSE [i \in DOMAIN latest \ {entry_id} |-> latest[i]]
        /\ UNCHANGED <<add_log, vocabulary, columns, uiVars>>

\* DB.__init__ on a new file: the empty table; no call made yet.
InitDb ==
    /\ columns = SchemaColumns
    /\ entries = {}
    /\ sqlite_sequence = 0
    /\ last = Returned("open", 0)
    /\ add_log = <<>>
    /\ latest = <<>>

InitUi ==
    /\ table = <<>>
    /\ selected = NoSelection
    /\ amount_edit = <<"0", ".", "0", "0">>
    /\ handler = "none"
    /\ dialog = "none"

Init ==
    /\ InitDb
    /\ InitUi
    /\ vocabulary \in Vocabularies

Next == Add \/ Update \/ Delete

Spec == Init /\ [][Next]_vars

-----------------------------------------------------------------------------
(* SpendingApp: the form, the table and the handlers of the buttons *)

DigitChars == <<"0", "1", "2", "3", "4", "5", "6", "7", "8", "9">>

IsDigit(c) == \E d \in 1..10 : DigitChars[d] = c

DigitValue(c) == (CHOOSE d \in 1..10 : DigitChars[d] = c) - 1

\* str.strip(): the text without its leading and trailing blanks.
RECURSIVE Strip(_)
Strip(s) ==
    IF s = <<>> THEN s
    ELSE IF Head(s) = " " THEN Strip(Tail(s))
    ELSE IF s[Len(s)] = " " THEN Strip(SubSeq(s, 1, Len(s) - 1))
    ELSE s

RECURSIVE DecimalValue(_)
DecimalValue(ds) ==
    IF ds = <<>> THEN 0
    ELSE 10 * DecimalValue(SubSeq(ds, 1, Len(ds) - 1)) + DigitValue(ds[Len(ds)])

\* Python float(text) on a stripped text: an optional sign, then "inf", "nan"
\* or decimal digits with an optional fraction; anything else is ValueError.
\* The amounts of the model are whole numbers: the fractions it reads are
\* fractions of zeros.
PyFloat(text) ==
    LET signed == text # <<>> /\ Head(text) \in {"+", "-"}
        sign == IF signed /\ Head(text) = "-" THEN -1 ELSE 1
        body == IF signed THEN Tail(text) ELSE text
        dots == {i \in 1..Len(body) : body[i] = "."}
        whole == IF dots = {} THEN body
                 ELSE SubSeq(body, 1, (CHOOSE i \in dots : TRUE) - 1)
        fraction == IF dots = {} THEN <<>>
                    ELSE SubSeq(body, (CHOOSE i \in dots : TRUE) + 1, Len(body))
    IN  IF body = <<"i", "n", "f">> THEN <<"inf", sign>>
        ELSE IF body = <<"n", "a", "n">> THEN NaN
        ELSE IF /\ Cardinality(dots) <= 1
                /\ Len(whole) + Len(fraction) > 0
                /\ \A i \in 1..Len(whole) : IsDigit(whole[i])
                /\ \A i \in 1..Len(fraction) : fraction[i] = "0"
             THEN Fin(sign * DecimalValue(whole))
        ELSE ValueError

\* _parse_amount that takes a text that is no number as 0.
ParseAmount_DefaultsToZero(text) ==
    IF PyFloat(text) = ValueError THEN Fin(0) ELSE PyFloat(text)

\* SpendingApp._parse_amount: float(text); its ValueError is raised again
\* with the message of the form.
ParseAmount(text) == PyFloat(text)

RECURSIVE DecimalDigits(_)
DecimalDigits(n) ==
    IF n < 10 THEN <<DigitChars[n + 1]>>
    ELSE DecimalDigits(n \div 10) \o <<DigitChars[(n % 10) + 1]>>

\* on_table_select: f"{float(amt):.2f}" of the amount the row shows.
FormatAmount(a) ==
    IF a = PosInf THEN <<"i", "n", "f">>
    ELSE IF a = NegInf THEN <<"-", "i", "n", "f">>
    ELSE (IF a[2] < 0 THEN <<"-">> ELSE <<>>)
         \o DecimalDigits(IF a[2] < 0 THEN 0 - a[2] ELSE a[2])
         \o <<".", "0", "0">>

\* What the widgets of the form let the user enter.
FormVocabulary ==
    [dt |-> {"2024-01-01"},
     tm |-> {"08:00"},
     category |-> {"Food"},
     description |-> {"Lunch"},
     amount |-> {}]

\* Texts the user types into the amount box.
AmountTexts ==
    {<<"a", "b", "c">>, <<" ", "3", " ">>, <<"-", "5">>,
     <<"i", "n", "f">>, <<"n", "a", "n">>}

\* _current_filters: what the filter widgets hold when a handler reads them.
FormFilters ==
    {<<NULL, NULL, "All">>, <<"2024-01-02", NULL, "All">>}

\* SpendingApp.refresh(select_id), with text in the amount box: the table is
\* rebuilt from fetch, which drops the selection; the row of select_id is
\* selected if it is shown, and on_table_select then copies it into the form.
Refresh(filters, select_id, text) ==
    LET rows == Fetch(entries', filters[1], filters[2], filters[3])
        shown == {i \in 1..Len(rows) : rows[i].id = select_id}
    IN  /\ table' = rows
        /\ IF select_id # NoSelection /\ shown # {}
           THEN /\ selected' = select_id
                /\ amount_edit' = FormatAmount(rows[CHOOSE i \in shown : TRUE].amount)
           ELSE /\ selected' = NoSelection
                /\ amount_edit' = text

\* The user fills the form and presses Add. _form_values raises for an amount
\* text that is no number, db.add for a row the table refuses; either way the
\* except branch opens the "Invalid input" box.
on_add ==
    \E dt \in vocabulary.dt, tm \in vocabulary.tm, category \in vocabulary.category,
       description \in vocabulary.description, text \in AmountTexts,
       filters \in FormFilters :
        LET amt == ParseAmount(Strip(text))
        IN  /\ handler' = "on_add"
            /\ IF amt = ValueError
               THEN /\ dialog' = "Invalid input"
                    /\ amount_edit' = text
                    /\ UNCHANGED <<dbVars, table, selected>>
               ELSE /\ DbAdd(dt, tm, category, description, amt)
                    /\ IF last'.raised
                       THEN /\ dialog' = "Invalid input"
                            /\ amount_edit' = text
                            /\ UNCHANGED <<table, selected>>
                       ELSE /\ dialog' = "none"
                            /\ Refresh(filters, last'.ret, text)
            /\ UNCHANGED <<vocabulary, columns, histVars>>

\* The user fills the form and presses Update Selected.
on_update ==
    \E dt \in vocabulary.dt, tm \in vocabulary.tm, category \in vocabulary.category,
       description \in vocabulary.description, text \in AmountTexts,
       filters \in FormFilters :
        LET amt == ParseAmount(Strip(text))
        IN  /\ handler' = "on_update"
            /\ IF selected = NoSelection
               THEN /\ dialog' = "No selection"
                    /\ amount_edit' = text
                    /\ UNCHANGED <<dbVars, table, selected>>
               ELSE IF amt = ValueError
               THEN /\ dialog' = "Invalid input"
                    /\ amount_edit' = text
                    /\ UNCHANGED <<dbVars, table, selected>>
               ELSE /\ DbUpdate(selected, dt, tm, category, description, amt)
                    /\ IF last'.raised
                       THEN /\ dialog' = "Invalid input"
                            /\ amount_edit' = text
                            /\ UNCHANGED <<table, selected>>
                       ELSE /\ dialog' = "none"
                            /\ Refresh(filters, selected, text)
            /\ UNCHANGED <<vocabulary, columns, histVars>>

\* A Delete button that does not wait for the answer to "Confirm Delete".
on_delete_NoConfirmation ==
    \E answer \in {"Yes", "No"}, filters \in FormFilters :
        /\ handler' = "on_delete"
        /\ IF selected = NoSelection
           THEN /\ dialog' = "No selection"
                /\ UNCHANGED <<dbVars, table, selected, amount_edit>>
           ELSE /\ dialog' = "Confirm Delete: " \o answer
                /\ DbDelete(selected)
                /\ Refresh(filters, NoSelection, amount_edit)
        /\ UNCHANGED <<vocabulary, columns, histVars>>

\* The user presses Delete Selected and answers the question box.
on_delete ==
    \E answer \in {"Yes", "No"}, filters \in FormFilters :
        /\ handler' = "on_delete"
        /\ IF selected = NoSelection
           THEN /\ dialog' = "No selection"
                /\ UNCHANGED <<dbVars, table, selected, amount_edit>>
           ELSE IF answer # "Yes"
           THEN /\ dialog' = "Confirm Delete: No"
                /\ UNCHANGED <<dbVars, table, selected, amount_edit>>
           ELSE /\ dialog' = "Confirm Delete: Yes"
                /\ DbDelete(selected)
                /\ Refresh(filters, NoSelection, amount_edit)
        /\ UNCHANGED <<vocabulary, columns, histVars>>

\* The user clicks a row of the table; on_table_select copies it into the form.
on_table_select ==
    \E i \in 1..Len(table) :
        /\ handler' = "on_table_select"
        /\ dialog' = "none"
        /\ selected' = table[i].id
        /\ amount_edit' = FormatAmount(table[i].amount)
        /\ UNCHANGED <<dbVars, table, vocabulary, columns, histVars>>

\* The user presses Clear Form.
clear_form ==
    /\ handler' = "clear_form"
    /\ dialog' = "none"
    /\ selected' = NoSelection
    /\ amount_edit' = <<"0", ".", "0", "0">>
    /\ UNCHANGED <<dbVars, table, vocabulary, columns, histVars>>

\* SpendingApp.__init__ on a new file: DB(), the widgets, then refresh().
InitApp ==
    /\ InitDb
    /\ InitUi
    /\ vocabulary = FormVocabulary

NextApp == on_add \/ on_update \/ on_delete \/ on_table_select \/ clear_form

SpecApp == InitApp /\ [][NextApp]_vars

-----------------------------------------------------------------------------
(* Opening a database file that exists already *)

\* The table as the version before the time column created it.
LegacyColumns == SchemaColumns \ {"tm"}

LegacyRow(id, dt, category, description, amount) ==
    [id |-> id, dt |-> dt, category |-> category,
     description |-> description, amount |-> amount]

\* What the rows of a file found on disk hold.
StoreVocabulary ==
    [dt |-> {"2024-01-01"},
     tm |-> {NULL, "08:00"},
     category |-> {"Food"},
     description |-> {NULL, "Lunch"},
     amount |-> {Fin(-5), Fin(3)}]

LegacyFields ==
    [dt : StoreVocabulary.dt, category : StoreVocabulary.category,
     description : StoreVocabulary.description, amount : StoreVocabulary.amount]

CurrentFields ==
    [dt : StoreVocabulary.dt, tm : StoreVocabulary.tm,
     category : StoreVocabulary.category,
     description : StoreVocabulary.description, amount : StoreVocabulary.amount]

\* Every assignment of fields to a set of ids that AUTOINCREMENT has given out.
StoredWith(F) == UNION {[S -> F] : S \in SUBSET (1..MaxId)}

\* CREATE TABLE IF NOT EXISTS entries: an existing table is left as it is.
CreateTableIfNotExists(cols) == IF cols = NoTable THEN SchemaColumns ELSE cols

\* ALTER TABLE entries ADD COLUMN tm TEXT: existing rows read NULL in it.
AddColumnTm(r) == Row(r.id, r.dt, NULL, r.category, r.description, r.amount)

\* A migration that drops the old table and creates the current one.
DbInit_RecreatesTable ==
    LET cols == CreateTableIfNotExists(columns)
    IN  /\ columns' = IF "tm" \notin cols THEN SchemaColumns ELSE cols
        /\ entries' = IF "tm" \notin cols THEN {} ELSE entries
        /\ last' = Returned("open", 0)
        /\ UNCHANGED sqlite_sequence

\* DB.__init__: connect, run SCHEMA_SQL, then _maybe_add_time_column.
DbInit ==
    LET cols == CreateTableIfNotExists(columns)
    IN  /\ columns' = IF "tm" \notin cols THEN cols \cup {"tm"} ELSE cols
        /\ entries' = IF "tm" \notin cols THEN {AddColumnTm(r) : r \in entries}
                       ELSE entries
        /\ last' = Returned("open", 0)
        /\ UNCHANGED sqlite_sequence

\* The program starts, or starts again, on the file.
Open ==
    /\ DbInit
    /\ UNCHANGED <<vocabulary, histVars, uiVars>>

\* DB's methods run on the connection that __init__ made.
Opened == last.op # "none"

\* A file on disk before the program opens it: no table, the table of the
\* version without the time column, or the current table; latest holds what
\* the program that wrote each row wrote.
InitStore ==
    /\ InitUi
    /\ vocabulary = StoreVocabulary
    /\ last = Returned("none", 0)
    /\ add_log = <<>>
    /\ columns \in {NoTable, LegacyColumns, SchemaColumns}
    /\ latest \in IF columns = NoTable THEN StoredWith({})
                   ELSE IF columns = LegacyColumns THEN StoredWith(LegacyFields)
                   ELSE StoredWith(CurrentFields)
    /\ entries = IF columns = LegacyColumns
                 THEN {LegacyRow(i, latest[i].dt, latest[i].category,
                                 latest[i].description, latest[i].amount) :
                          i \in DOMAIN latest}
                 ELSE {Row(i, latest[i].dt, latest[i].tm, latest[i].category,
                           latest[i].description, latest[i].amount) :
                          i \in DOMAIN latest}
    /\ sqlite_sequence \in Max(DOMAIN latest \cup {0})..MaxId

NextStore ==
    \/ Open
    \/ Opened /\ Add
    \/ Opened /\ Update
    \/ Opened /\ Delete

SpecStore == InitStore /\ [][NextStore]_vars

-----------------------------------------------------------------------------
(* Properties of the store *)

RowFields(r) == Fields(r.dt, r.tm, r.category, r.description, r.amount)

Range(xs) == {xs[i] : i \in 1..Len(xs)}

\* C1: after any adds, updates and deletes on a store that started empty, an
\* unfiltered fetch returns exactly one entry for each id add returned that
\* has not been deleted since, and no other entry; each entry carries that id
\* and the date, time, category, description and amount of the most recent
\* add or update of that id that completed.
C1_FetchReturnsWhatWasWritten ==
    LET rows == Fetch(entries, NULL, NULL, NULL)
    IN  /\ \A id \in DOMAIN latest :
               Cardinality({i \in 1..Len(rows) : rows[i].id = id}) = 1
        /\ \A i \in 1..Len(rows) :
               /\ rows[i].id \in DOMAIN latest
               /\ RowFields(rows[i]) = latest[rows[i].id]

\* C1's case: two adds, the first entry deleted, the second just updated to
\* a description it was not added with.
C1_Witness ==
    /\ Len(add_log) = 2
    /\ DOMAIN latest = {2}
    /\ last = Returned("update", 0)
    /\ Len(Fetch(entries, NULL, NULL, NULL)) = 1
    /\ latest[2].description = NULL
    /\ latest[2].category = "All"

\* C2: every id add returns differs from every id an earlier add returned,
\* those of deleted entries included, and no two stored entries share an id.
C2_IdsAreNeverReused ==
    /\ \A i, j \in 1..Len(add_log) : i # j => add_log[i] # add_log[j]
    /\ \A r, q \in entries : r.id = q.id => r = q

\* C2's case: an add that follows the deletion of every entry stored so far.
C2_Witness ==
    /\ last.op = "add"
    /\ ~last.raised
    /\ Len(add_log) = 2
    /\ Ids(entries) = {last.ret}

\* A filter argument is present when it is given and not empty.
FilterPresent(x) == x # NULL /\ x # ""

\* The calendar day a date text names, counted from 2024-01-01 as day 1;
\* 0 for a text that names no day.
DayNumber(d) ==
    CASE d = "2024-01-01" -> 1
      [] d = "2024-01-02" -> 2
      [] OTHER -> 0

Satisfies(r, dateFrom, dateTo, category) ==
    /\ FilterPresent(dateFrom) =>
           (DayNumber(r.dt) > 0 /\ DayNumber(r.dt) >= DayNumber(dateFrom))
    /\ FilterPresent(dateTo) =>
           (DayNumber(r.dt) > 0 /\ DayNumber(r.dt) <= DayNumber(dateTo))
    /\ (FilterPresent(category) /\ category # "All") => r.category = category

\* C3: for every store state and every combination of filters, fetch returns
\* exactly the stored entries that satisfy all present filters at once: date
\* on or after dateFrom, date on or before dateTo (both inclusive), category
\* equal to the given one unless that is "All"; an absent filter or "All"
\* excludes nothing. An entry whose date names no calendar day is on neither
\* side of any bound.
C3_FetchAppliesTheFilters ==
    \A dateFrom \in DateFilters, dateTo \in DateFilters, category \in CategoryFilters :
        LET rows == Fetch(entries, dateFrom, dateTo, category)
            wanted == {r \in entries : Satisfies(r, dateFrom, dateTo, category)}
        IN  /\ Range(rows) = wanted
            /\ Len(rows) = Cardinality(wanted)

\* C3's case: two entries on one day in different categories; a fetch bounded
\* to that day on both sides returns both, and one when the category is given.
C3_Witness ==
    /\ \E r, q \in entries :
           /\ r.dt = "2024-01-02" /\ q.dt = "2024-01-02"
           /\ r.category = "Food" /\ q.category = "Rent"
    /\ Cardinality(entries) = 2
    /\ Len(Fetch(entries, "2024-01-02", "2024-01-02", "All")) = 2
    /\ Len(Fetch(entries, "2024-01-02", "2024-01-02", "Food")) = 1
    /\ Len(Fetch(entries, "2024-01-01", "2024-01-01", NULL)) = 0

\* Minutes after midnight of an HH:MM text.
ClockMinutes(tm) ==
    CASE tm = "00:00" -> 0
      [] tm = "08:00" -> 480

\* The statement of C4 on one fetched sequence.
SortedAbsentTimeLast(rows) ==
    \A i, j \in 1..Len(rows) :
        i < j =>
            LET r == rows[i]
                q == rows[j]
            IN  /\ DayNumber(r.dt) >= DayNumber(q.dt)
                /\ DayNumber(r.dt) = DayNumber(q.dt) =>
                       /\ ~(r.tm = NULL /\ q.tm # NULL)
                       /\ (r.tm # NULL /\ q.tm # NULL) =>
                              ClockMinutes(r.tm) >= ClockMinutes(q.tm)
                       /\ r.tm = q.tm => r.id > q.id

OrderingMinutes(tm) == IF tm = NULL THEN 0 ELSE ClockMinutes(tm)

SortedAbsentTimeAsMidnight(rows) ==
    \A i, j \in 1..Len(rows) :
        i < j =>
            LET r == rows[i]
                q == rows[j]
            IN  /\ DayNumber(r.dt) >= DayNumber(q.dt)
                /\ DayNumber(r.dt) = DayNumber(q.dt) =>
                       /\ OrderingMinutes(r.tm) >= OrderingMinutes(q.tm)
                       /\ OrderingMinutes(r.tm) = OrderingMinutes(q.tm) =>
                              r.id > q.id

RECURSIVE SumOver(_)
SumOver(S) ==
    IF S = {} THEN Fin(0)
    ELSE LET r == CHOOSE x \in S : TRUE
         IN  FAdd(r.amount, SumOver(S \ {r}))

\* C5: for every store state and every filter combination, totals returns
\* (income, expense, balance) with income the sum of the amounts >= 0 and
\* expense the non-positive sum of the amounts < 0 over exactly the entries
\* fetch returns for those filters, balance = income + expense = the sum of
\* all those amounts, and all three zero when fetch returns nothing.
C5_TotalsAreTheSums ==
    \A dateFrom \in DateFilters, dateTo \in DateFilters, category \in CategoryFilters :
        LET rows == Range(Fetch(entries, dateFrom, dateTo, category))
            t == Totals(entries, dateFrom, dateTo, category)
        IN  /\ FEq(t.income, SumOver({r \in rows : FGe0(r.amount)}))
            /\ FEq(t.expense, SumOver({r \in rows : FLt0(r.amount)}))
            /\ FEq(t.expense, Fin(0)) \/ FLt0(t.expense)
            /\ FEq(t.balance, FAdd(t.income, t.expense))
            /\ FEq(t.balance, SumOver(rows))
            /\ rows = {} => (t.income = Fin(0) /\ t.expense = Fin(0)
                                /\ t.balance = Fin(0))

\* The sum of the totals by_category lists; a total of None is no number.
RECURSIVE SumOfTotals(_)
SumOfTotals(groups) ==
    IF groups = <<>> THEN Fin(0)
    ELSE LET total == groups[Len(groups)][2]
         IN  FAdd(SumOfTotals(SubSeq(groups, 1, Len(groups) - 1)),
                  IF total = NullReal THEN NaN ELSE total)

\* C6: for every store state and every pair of date bounds, the per-category
\* totals of byCategory add up to totals(dateFrom, dateTo, All).balance,
\* whatever category is passed to byCategory.
C6_CategoryTotalsAddUpToBalance ==
    \A dateFrom \in DateFilters, dateTo \in DateFilters, category \in CategoryFilters :
        FEq(SumOfTotals(ByCategory(entries, dateFrom, dateTo, category)),
            Totals(entries, dateFrom, dateTo, "All").balance)

\* Every stored amount is finite: what the data model promises of a store.
AmountsAreFinite == \A r \in entries : IsFinite(r.amount)

\* The statements of C5 and C6 hold of every store that keeps that promise.
TotalsAreTheSumsOfFiniteAmounts == AmountsAreFinite => C5_TotalsAreTheSums

CategoryTotalsAddUpOverFiniteAmounts ==
    AmountsAreFinite => C6_CategoryTotalsAddUpToBalance

\* C9: an add or update with an empty date or an empty category is refused,
\* so no stored entry ever has an empty date or an empty category.
C9_NoEmptyDateOrCategory ==
    \A r \in entries : r.dt # "" /\ r.category # ""

\* C10: delete(id) and update(id, ...) with an id that references no stored
\* entry, never assigned or already deleted, raise nothing and leave the
\* store as it was.
C10_UnknownIdIsANoOp ==
    [][\A entry_id \in EntryIds \ Ids(entries) :
          LET noOp == ~last'.raised /\ entries' = entries
          IN  /\ DbDelete(entry_id) => noOp
              /\ \A dt \in vocabulary.dt, tm \in vocabulary.tm,
                    category \in vocabulary.category,
                    description \in vocabulary.description,
                    amount \in vocabulary.amount :
                     DbUpdate(entry_id, dt, tm, category, description, amount)
                         => noOp]_vars

\* C10's case: an update has just run on a store that is empty because its
\* only entry was deleted before; the id it named references nothing.
C10_Witness ==
    /\ last = Returned("update", 0)
    /\ Len(add_log) = 1
    /\ entries = {}

-----------------------------------------------------------------------------
(* Properties of the form *)

\* The filters the form can ask for: no date or a date, "All" or a category.
FormDateFilters == {NULL} \cup ValidDates

FormCategoryFilters == {"All", "Food", "Rent"}

\* C7: an add or update request whose amount text is no number signals an
\* invalid-input error and changes nothing: fetch returns for every filter
\* what it returned before the request.
C7_UnparsableAmountChangesNothing ==
    [][(/\ handler' \in {"on_add", "on_update"}
        /\ handler' = "on_update" => selected # NoSelection
        /\ PyFloat(Strip(amount_edit')) = ValueError)
       => (/\ dialog' = "Invalid input"
           /\ \A dateFrom \in FormDateFilters, dateTo \in FormDateFilters,
                 category \in FormCategoryFilters :
                  Fetch(entries', dateFrom, dateTo, category)
                      = Fetch(entries, dateFrom, dateTo, category))]_vars

\* C7's case: with an entry stored and selected, Update Selected was pressed
\* on the amount text "abc".
C7_Witness ==
    /\ handler = "on_update"
    /\ selected \in Ids(entries)
    /\ amount_edit = <<"a", "b", "c">>
    /\ dialog = "Invalid input"

\* C8: the amount of every stored entry is a finite number; an add or update
\* with an amount that is not, the texts "inf" and "nan" included, fails and
\* stores nothing.
C8_StoredAmountsAreFinite ==
    \A r \in entries : IsFinite(r.amount)

-----------------------------------------------------------------------------
(* Properties of opening a store *)

NonTimeFields(r) ==
    [dt |-> r.dt, category |-> r.category,
     description |-> r.description, amount |-> r.amount]

\* C11: opening a store destroys nothing. Opening a file whose table lacks the
\* time column adds that one column, keeps the number of rows, and an
\* unfiltered fetch then returns every row that was there with its id, date,
\* category, description and amount as they were and with an absent time;
\* opening a file whose table has the time column changes no row and no
\* column; opening never moves the id counter.
C11_OpeningIsNonDestructive ==
    [][last'.op = "open" =>
          /\ "tm" \in columns'
          /\ sqlite_sequence' = sqlite_sequence
          /\ (columns # NoTable /\ "tm" \notin columns) =>
                /\ columns' = columns \cup {"tm"}
                /\ Cardinality(entries') = Cardinality(entries)
                /\ Len(Fetch(entries', NULL, NULL, NULL)) = Cardinality(entries)
                /\ \A r \in entries :
                      \E q \in Range(Fetch(entries', NULL, NULL, NULL)) :
                          /\ q.id = r.id
                          /\ q.tm = NULL
                          /\ NonTimeFields(q) = NonTimeFields(r)
          /\ "tm" \in columns => entries' = entries /\ columns' = columns
      ]_vars

\* A file written without the time column has been opened: its two rows are
\* in the table, which now has the column.
C11_Witness ==
    /\ last.op = "open"
    /\ "tm" \in columns
    /\ Cardinality(entries) = 2
    /\ DOMAIN latest = Ids(entries)
    /\ \A i \in DOMAIN latest : "tm" \notin DOMAIN latest[i]

-----------------------------------------------------------------------------
(* Properties of the Update and Delete buttons *)

\* C12: a run of the Update or the Delete handler changes the store only if a
\* table row is selected, and a run of Delete only if "Confirm Delete" was
\* answered Yes; a run that does change it adds no entry and leaves every
\* entry other than the one whose id the selected row shows as it was; in
\* the other runs the rows and the id counter are after the handler what they
\* were before it.
C12_UpdateAndDeleteTouchOnlyTheSelection ==
    [][handler' \in {"on_update", "on_delete"} =>
          /\ selected = NoSelection =>
                entries' = entries /\ sqlite_sequence' = sqlite_sequence
          /\ (handler' = "on_delete" /\ dialog' # "Confirm Delete: Yes") =>
                entries' = entries /\ sqlite_sequence' = sqlite_sequence
          /\ \A r \in entries : r.id # selected => r \in entries'
          /\ \A r \in entries' : r.id # selected => r \in entries
          /\ Ids(entries') \subseteq Ids(entries)
          /\ handler' = "on_update" => Ids(entries') = Ids(entries)
      ]_vars

\* Delete was confirmed on the selected one of two entries: the other is left.
C12_Witness ==
    /\ handler = "on_delete"
    /\ dialog = "Confirm Delete: Yes"
    /\ Cardinality(entries) = 1
    /\ sqlite_sequence = 2

====
